---- MODULE Spec2Model ----
(***************************************************************************)
(* State-machine model of the areaDetector core of ophyd-async:            *)
(*   ADBaseController (epics/adcore/_core_logic.py)  - prepare, arm,       *)
(*       wait_for_idle, disarm, the complete_acquisition task and          *)
(*       set_exposure_time_and_acquire_period_if_supplied;                 *)
(*   ADWriter (epics/adcore/_core_writer.py)  - open/begin_capture,        *)
(*       get_indices_written, observe_indices_written,                     *)
(*       collect_stream_docs, close.                                       *)
(* The two components share no state; SpecController and SpecWriter are    *)
(* the behaviours of each one together with the device it talks to.        *)
(* Coroutines are cut at their awaits: one action per stretch of code that *)
(* runs between two suspension points.                                     *)
(***************************************************************************)
EXTENDS Integers, Sequences, FiniteSets, TLC

----------------------------------------------------------------------------
(* Bounds of the model *)

\* arm() calls made on the controller
MaxArms == 2
\* prepare() calls made on the controller
MaxPrepares == 2
\* largest acquire_time the device reports
MaxAcquireTime == 1
\* largest total_number_of_triggers passed to prepare
MaxTriggers == 1
\* set_exposure_time_and_acquire_period_if_supplied() calls made on the controller
MaxExposures == 1
\* open() calls made on the writer
MaxOpens == 2
\* collect_stream_docs() calls made on the writer
MaxCollects == 3
\* largest indices_written passed to collect_stream_docs
MaxIndex == 2

----------------------------------------------------------------------------
(* Program constants and enumerations *)

\* ophyd_async.core.DEFAULT_TIMEOUT, the initial frame_timeout
DEFAULT_TIMEOUT == 10

\* the DetectorState values the device is driven through
DetectorStates == {"Idle", "Acquiring", "Aborted", "Error"}

DEFAULT_GOOD_STATES == {"Idle", "Aborted"}

\* good_states a controller may be constructed with
GoodStatesChoices == {DEFAULT_GOOD_STATES, {"Idle"}}

DetectorTriggers == {"internal", "edge_trigger"}

ImageModes == {"single", "multiple"}

\* the value of "no AsyncStatus" (None) in _arm_status / _capture_status
\* exposure = None
NoExposure == -1

NoStatus == 0

\* the value of "no resource" (None) in _emitted_resource
NoResource == 0

\* the raw num_captured values and the multipliers open() is called with
\* values the counter num_captured takes while it is observed
ObservedCounts == {0, 2, 5}
RawCounts == {0, 1, 3, 7, 8}
Multipliers == {1, 2, 4}

\* the five sets begin_capture hands to asyncio.gather
ConfigPoints == {"file_path", "file_name", "file_template", "file_write_mode", "auto_increment"}

\* every file-plugin control point begin_capture sets before capture
FileioPoints == {"enable_callbacks", "create_directory", "num_capture"} \cup ConfigPoints

NoError == [type |-> "none", state |-> "none", valid_end_states |-> [interpolated |-> FALSE, value |-> {}]]

\* an error raised by the transport (timeout, disconnect) out of an awaited put
TransportError == [type |-> "TransportError", state |-> "none", valid_end_states |-> [interpolated |-> FALSE, value |-> {}]]

VARIABLES
    \* ---- ADBaseController
    good_states,      \* self.good_states
    frame_timeout,    \* self.frame_timeout
    arm_status,       \* self._arm_status: NoStatus or the index of a status in statuses
    statuses,         \* every AsyncStatus made by start_acquiring_driver_and_ensure_status
    armPc,            \* arm(): "idle" (never called) | "waiting" | how the last call ended: "ok" | "timeout"
    armH,             \* the status the running / last arm() obtained
    armCalls,         \* number of arm() calls so far
    wfiPc,            \* wait_for_idle(): "idle" | "awaiting" | how the last call ended: "ok" | "error"
    wfiH,             \* the status wait_for_idle() is (was last) awaiting
    disarmPc,         \* disarm(): "idle" | "waiting" | how the last call ended: "ok" | "timeout"
    prepPc,           \* prepare(): "idle" | "reading" | "writing" | how the last call ended:
                      \*   "ok" | "error" | "UnsupportedTriggerMode"
    prepTrigger,      \* trigger_info of the running / last prepare()
    prepWrites,       \* state of the two gathered sets of prepare()
    prepCalls,        \* number of prepare() calls so far
    expPc,            \* set_exposure_time_and_acquire_period_if_supplied(): "idle" | "writing" |
                      \*   how the last call ended: "ok" | "error"
    expArg,           \* its exposure argument
    expWrites,        \* state of its two gathered sets
    expCalls,         \* number of calls of it so far
    acquire_period,   \* driver.acquire_period, in milliseconds
    \* ---- the driver's control points (the device)
    acquire,          \* driver.acquire
    acqPending,       \* statuses whose put-with-callback on acquire is outstanding
    acquire_time,     \* driver.acquire_time
    num_images,       \* driver.num_images
    image_mode,       \* driver.image_mode
    \* ---- ADWriter
    last_emitted,     \* self._last_emitted
    emitted_resource, \* self._emitted_resource: NoResource or the uid of the composed resource
    multiplier,       \* self._multiplier
    capture_status,   \* self._capture_status: NoStatus or an index in capStatuses
    capStatuses,      \* the put status of every capture=True issued by begin_capture
    openPc,           \* open(): "idle" | the await it is suspended at | how the last call ended
    openMultiplier,   \* the multiplier argument of the running / last open()
    session,          \* number of open() calls entered so far
    fileioSets,       \* the sets begin_capture has issued on the file plugin in this open()
    closePc,          \* close(): "idle" | "waiting" | "awaiting" | how the last call ended
    closeH,           \* the status close() is (was last) awaiting
    closeLog,         \* what the running / last close() did, in order
    gotIndices,       \* the last get_indices_written(): what was read and what was returned
    colPc,            \* per collect_stream_docs() generator: "idle" | the await or yield it is
                      \*   suspended at | how it ended: "done" | "error" | "abandoned"
    colArg,           \* its indices_written argument
    colOut,           \* the documents it has yielded so far
    colAt,            \* the writer's state when it was called, and whether it ran alone
    collects,         \* number of collect_stream_docs() calls so far
    nextUid,          \* number of stream resources composed so far (each gets a fresh uid)
    sessRes,          \* stream_resource documents yielded since the last open()
    lastDatum,        \* the range of the last stream_datum yielded since the last open()
    straddled,        \* whether a generator was still running when the last open() was entered
    obsPc,            \* the observe_indices_written() generator: "idle" | "waiting" (for the
                      \*   next update) | "yielded_index" | "timeout"
    obsQueue,         \* the values of num_captured it has been notified of and not yet taken
    obsOut,           \* what it has yielded so far, with the raw value each index came from
    num_captured,     \* fileio.num_captured
    \* ---- the file plugin's control points (the device)
    capture,          \* fileio.capture
    capPending        \* statuses whose put-with-callback on capture is outstanding

ctlVars == <<good_states, frame_timeout, arm_status, statuses, armPc, armH,
             armCalls, wfiPc, wfiH, disarmPc, prepPc, prepTrigger, prepWrites, prepCalls,
             expPc, expArg, expWrites, expCalls, acquire_period>>

drvVars == <<acquire, acqPending, acquire_time, num_images, image_mode>>

sessVars == <<last_emitted, emitted_resource, session>>
openVars == <<openPc, openMultiplier, fileioSets, multiplier>>
capVars == <<capture_status, capStatuses, capture, capPending>>
closeVars == <<closePc, closeH, closeLog>>

colVars == <<colPc, colArg, colOut, colAt, collects, nextUid>>
histVars == <<sessRes, lastDatum, straddled>>

obsVars == <<obsPc, obsQueue, obsOut, num_captured>>

wrVars == <<sessVars, openVars, capVars, closeVars, gotIndices, colVars, histVars, obsVars>>

vars == <<ctlVars, drvVars, wrVars>>

armVars == <<arm_status, statuses, armPc, armH, armCalls>>
wfiVars == <<wfiPc, wfiH>>
disarmVars == <<disarmPc>>
prepVars == <<prepPc, prepTrigger, prepWrites, prepCalls>>
expVars == <<expPc, expArg, expWrites, expCalls, acquire_period>>

\* a call is in progress exactly in these positions
Running == {"waiting", "awaiting", "reading", "writing",
            "shape", "np_datatype", "enable_callbacks", "create_directory", "configure",
            "file_path_exists", "num_capture", "capture",
            "file_path", "file_name", "frame_shape", "yielded_resource", "yielded_datum",
            "yielded_index"}

\* the two consumers that may hold a collect_stream_docs() generator at once
Collectors == {"c1", "c2"}

----------------------------------------------------------------------------
(* ADBaseController *)

\* __init__: good_states as configured, frame_timeout = DEFAULT_TIMEOUT, no arm status
InitController ==
    /\ good_states \in GoodStatesChoices
    /\ frame_timeout = DEFAULT_TIMEOUT
    /\ arm_status = NoStatus
    /\ statuses = <<>>
    /\ armPc = "idle" /\ armH = NoStatus /\ armCalls = 0
    /\ wfiPc = "idle" /\ wfiH = NoStatus
    /\ disarmPc = "idle"
    /\ prepPc = "idle"
    /\ prepTrigger = [trigger |-> "internal", total_number_of_triggers |-> 0]
    /\ prepWrites = [num_images |-> "none", image_mode |-> "none"]
    /\ prepCalls = 0
    /\ expPc = "idle"
    /\ expArg = NoExposure
    /\ expWrites = [acquire_time |-> "none", acquire_period |-> "none"]
    /\ expCalls = 0
    /\ acquire_period = 0

InitDriver ==
    /\ acquire = FALSE
    /\ acqPending = {}
    /\ acquire_time \in 0..MaxAcquireTime
    /\ num_images = 0
    /\ image_mode = "single"

\* PrepareCall without the assertion: every trigger is taken as internal
PrepareCall_NoAssert(trig, n) ==
    /\ prepPc \notin Running
    /\ prepCalls < MaxPrepares
    /\ \A w \in DOMAIN prepWrites : prepWrites[w] # "inflight"
    /\ prepCalls' = prepCalls + 1
    /\ prepTrigger' = [trigger |-> trig, total_number_of_triggers |-> n]
    /\ prepWrites' = [num_images |-> "none", image_mode |-> "none"]
    /\ prepPc' = "reading"
    /\ UNCHANGED <<good_states, frame_timeout, armVars, wfiVars, disarmVars, drvVars>>
    /\ UNCHANGED <<expVars, wrVars>>

\* prepare, up to its first await: the assertion on the trigger, which raises
\* before anything else is done when the trigger is not internal
PrepareCall(trig, n) ==
    /\ prepPc \notin Running
    /\ prepCalls < MaxPrepares
    /\ \A w \in DOMAIN prepWrites : prepWrites[w] # "inflight"
    /\ prepCalls' = prepCalls + 1
    /\ prepTrigger' = [trigger |-> trig, total_number_of_triggers |-> n]
    /\ prepWrites' = [num_images |-> "none", image_mode |-> "none"]
    /\ IF trig = "internal"
         THEN prepPc' = "reading"
         ELSE prepPc' = "UnsupportedTriggerMode"
    /\ UNCHANGED <<good_states, frame_timeout, armVars, wfiVars, disarmVars, drvVars>>
    /\ UNCHANGED <<expVars, wrVars>>

\* prepare: acquire_time.get_value() answers; frame_timeout is set and the two
\* sets are handed to asyncio.gather
PrepareRead ==
    /\ prepPc = "reading"
    /\ frame_timeout' = DEFAULT_TIMEOUT + acquire_time
    /\ prepWrites' = [num_images |-> "inflight", image_mode |-> "inflight"]
    /\ prepPc' = "writing"
    /\ UNCHANGED <<good_states, armVars, wfiVars, disarmVars, prepTrigger,
                   prepCalls, drvVars>>
    /\ UNCHANGED <<expVars, wrVars>>

\* prepare: acquire_time.get_value() raises; nothing was written
PrepareReadFail ==
    /\ prepPc = "reading"
    /\ prepPc' = "error"
    /\ UNCHANGED <<good_states, frame_timeout, armVars, wfiVars, disarmVars, prepTrigger,
                   prepWrites, prepCalls, drvVars>>
    /\ UNCHANGED <<expVars, wrVars>>

\* one of the two gathered sets completes on the device.  asyncio.gather does not
\* cancel the other set when one raises, so a set completes whether or not
\* prepare has already raised.
PrepareWriteDone(w) ==
    /\ prepWrites[w] = "inflight"
    /\ prepWrites' = [prepWrites EXCEPT ![w] = "done"]
    /\ IF w = "num_images"
         THEN num_images' = prepTrigger.total_number_of_triggers /\ UNCHANGED image_mode
         ELSE image_mode' = "multiple" /\ UNCHANGED num_images
    /\ UNCHANGED <<good_states, frame_timeout, armVars, wfiVars, disarmVars, prepPc,
                   prepTrigger, prepCalls, acquire, acqPending, acquire_time>>
    /\ UNCHANGED <<expVars, wrVars>>

\* one of the two gathered sets fails (timeout or transport error)
PrepareWriteFail(w) ==
    /\ prepWrites[w] = "inflight"
    /\ prepWrites' = [prepWrites EXCEPT ![w] = "failed"]
    /\ UNCHANGED <<good_states, frame_timeout, armVars, wfiVars, disarmVars, prepPc,
                   prepTrigger, prepCalls, drvVars>>
    /\ UNCHANGED <<expVars, wrVars>>

\* asyncio.gather returns: both sets are done
PrepareReturn ==
    /\ prepPc = "writing"
    /\ \A w \in DOMAIN prepWrites : prepWrites[w] = "done"
    /\ prepPc' = "ok"
    /\ UNCHANGED <<good_states, frame_timeout, armVars, wfiVars, disarmVars, prepTrigger,
                   prepWrites, prepCalls, drvVars>>
    /\ UNCHANGED <<expVars, wrVars>>

\* asyncio.gather raises the first exception as soon as one set has failed
PrepareRaise ==
    /\ prepPc = "writing"
    /\ \E w \in DOMAIN prepWrites : prepWrites[w] = "failed"
    /\ prepPc' = "error"
    /\ UNCHANGED <<good_states, frame_timeout, armVars, wfiVars, disarmVars, prepTrigger,
                   prepWrites, prepCalls, drvVars>>
    /\ UNCHANGED <<expVars, wrVars>>

\* A piece of the ValueError message: an f-string literal carries the value put
\* in its braces, a plain literal carries its braces as text and no value.
FormatPiece(isFString, value) ==
    IF isFString THEN [interpolated |-> TRUE, value |-> value]
                 ELSE [interpolated |-> FALSE, value |-> {}]

\* the ValueError of complete_acquisition: f"Final detector state {state} not"
\* followed by the plain literal "in valid end states: {self.good_states}"
BadStateError(state, good) ==
    [type |-> "ValueError", state |-> state, valid_end_states |-> FormatPiece(FALSE, good)]

\* the AsyncStatus returned by start_acquiring_driver_and_ensure_status: the put
\* status it wraps and the complete_acquisition task it runs
NewStatus == [put |-> "pending", task |-> "running", state |-> "none", error |-> NoError]

\* arm -> start_acquiring_driver_and_ensure_status, up to the wait inside
\* set_and_wait_for_value: acquire is put to True with a completion callback
\* (wait_for_set_completion=False keeps that status un-awaited) and the call
\* waits, up to frame_timeout, to see acquire read True.  Nothing looks at an
\* earlier status: the put is issued whether or not one is still outstanding.
ArmCall ==
    /\ armPc \notin Running
    /\ armCalls < MaxArms
    /\ armCalls' = armCalls + 1
    /\ statuses' = Append(statuses, NewStatus)
    /\ armH' = Len(statuses) + 1
    /\ acqPending' = acqPending \cup {Len(statuses) + 1}
    /\ acquire' = TRUE
    /\ armPc' = "waiting"
    /\ UNCHANGED <<good_states, frame_timeout, arm_status, wfiVars, disarmVars, prepVars,
                   acquire_time, num_images, image_mode>>
    /\ UNCHANGED <<expVars, wrVars>>

\* ArmReturn keeping an earlier status instead of replacing it
ArmReturn_KeepFirst ==
    /\ armPc = "waiting"
    /\ acquire = TRUE \/ statuses[armH].put # "pending"
    /\ arm_status' = IF arm_status = NoStatus THEN armH ELSE arm_status
    /\ armPc' = "ok"
    /\ UNCHANGED <<good_states, frame_timeout, statuses, armH, armCalls, wfiVars,
                   disarmVars, prepVars, drvVars>>
    /\ UNCHANGED <<expVars, wrVars>>

\* arm: acquire was seen True; the AsyncStatus around complete_acquisition is
\* stored in _arm_status, replacing whatever was there
ArmReturn ==
    /\ armPc = "waiting"
    /\ acquire = TRUE \/ statuses[armH].put # "pending"
    /\ arm_status' = armH
    /\ armPc' = "ok"
    /\ UNCHANGED <<good_states, frame_timeout, statuses, armH, armCalls, wfiVars,
                   disarmVars, prepVars, drvVars>>
    /\ UNCHANGED <<expVars, wrVars>>

\* arm: acquire was not seen True within frame_timeout; set_and_wait_for_value
\* raises and _arm_status is not assigned
ArmTimeout ==
    /\ armPc = "waiting"
    /\ armPc' = "timeout"
    /\ UNCHANGED <<good_states, frame_timeout, arm_status, statuses, armH, armCalls,
                   wfiVars, disarmVars, prepVars, drvVars>>
    /\ UNCHANGED <<expVars, wrVars>>

\* complete_acquisition reading the state without awaiting the put status
CompleteAcquisition_NoAwait(h, state) ==
    /\ h \in DOMAIN statuses
    /\ statuses[h].task = "running"
    /\ statuses[h].put # "failed"
    /\ statuses' = [statuses EXCEPT ![h] =
          IF state \in good_states
            THEN [@ EXCEPT !.task = "ok", !.state = state]
            ELSE [@ EXCEPT !.task = "error", !.state = state,
                           !.error = BadStateError(state, good_states)]]
    /\ UNCHANGED <<good_states, frame_timeout, arm_status, armPc, armH,
                   armCalls, wfiVars, disarmVars, prepVars, drvVars>>
    /\ UNCHANGED <<expVars, wrVars>>

\* complete_acquisition: the put status has resolved; detector_state is read
\* once (state is what the device answers) and checked against good_states
CompleteAcquisition(h, state) ==
    /\ h \in DOMAIN statuses
    /\ statuses[h].task = "running"
    /\ statuses[h].put = "done"
    /\ statuses' = [statuses EXCEPT ![h] =
          IF state \in good_states
            THEN [@ EXCEPT !.task = "ok", !.state = state]
            ELSE [@ EXCEPT !.task = "error", !.state = state,
                           !.error = BadStateError(state, good_states)]]
    /\ UNCHANGED <<good_states, frame_timeout, arm_status, armPc, armH,
                   armCalls, wfiVars, disarmVars, prepVars, drvVars>>
    /\ UNCHANGED <<expVars, wrVars>>

\* complete_acquisition: awaiting the put status raised; the state is not read
CompleteAcquisitionPutFailed(h) ==
    /\ h \in DOMAIN statuses
    /\ statuses[h].task = "running"
    /\ statuses[h].put = "failed"
    /\ statuses' = [statuses EXCEPT ![h] = [@ EXCEPT !.task = "error", !.error = TransportError]]
    /\ UNCHANGED <<good_states, frame_timeout, arm_status, armPc, armH,
                   armCalls, wfiVars, disarmVars, prepVars, drvVars>>
    /\ UNCHANGED <<expVars, wrVars>>

\* WaitForIdleCall without the test of _arm_status: None is awaited, which raises
WaitForIdleCall_NoTest ==
    /\ wfiPc \notin Running
    /\ wfiH' = arm_status
    /\ wfiPc' = IF arm_status = NoStatus THEN "error" ELSE "awaiting"
    /\ UNCHANGED <<good_states, frame_timeout, armVars, disarmVars, prepVars, drvVars>>
    /\ UNCHANGED <<expVars, wrVars>>

\* wait_for_idle: returns at once when _arm_status is None, otherwise starts
\* awaiting the status stored at this moment
WaitForIdleCall ==
    /\ wfiPc \notin Running
    /\ wfiH' = arm_status
    /\ wfiPc' = IF arm_status = NoStatus THEN "ok" ELSE "awaiting"
    /\ UNCHANGED <<good_states, frame_timeout, armVars, disarmVars, prepVars, drvVars>>
    /\ UNCHANGED <<expVars, wrVars>>

\* wait_for_idle: the awaited status has finished; its outcome is the call's
WaitForIdleReturn ==
    /\ wfiPc = "awaiting"
    /\ statuses[wfiH].task # "running"
    /\ wfiPc' = statuses[wfiH].task
    /\ UNCHANGED <<good_states, frame_timeout, armVars, wfiH, disarmVars, prepVars, drvVars>>
    /\ UNCHANGED <<expVars, wrVars>>

\* DisarmCall that also drops the stored arm status
DisarmCall_ClearsHandle ==
    /\ disarmPc \notin Running
    /\ acquire' = FALSE
    /\ arm_status' = NoStatus
    /\ disarmPc' = "waiting"
    /\ UNCHANGED <<good_states, frame_timeout, statuses, armPc, armH, armCalls, wfiVars,
                   prepVars, acqPending, acquire_time, num_images, image_mode>>
    /\ UNCHANGED <<expVars, wrVars>>

\* DisarmCall stopping the driver the way arm starts it: the put registers a
\* completion callback
DisarmCall_PutCallback ==
    /\ disarmPc \notin Running
    /\ acquire' = FALSE
    /\ statuses' = Append(statuses, NewStatus)
    /\ acqPending' = acqPending \cup {Len(statuses) + 1}
    /\ disarmPc' = "waiting"
    /\ UNCHANGED <<good_states, frame_timeout, arm_status, armPc, armH, armCalls, wfiVars,
                   prepVars, acquire_time, num_images, image_mode>>
    /\ UNCHANGED <<expVars, wrVars>>

\* disarm -> stop_busy_record(acquire, False, timeout=1): acquire is put to
\* False without a completion callback, then the call waits to see it False
DisarmCall ==
    /\ disarmPc \notin Running
    /\ acquire' = FALSE
    /\ disarmPc' = "waiting"
    /\ UNCHANGED <<good_states, frame_timeout, armVars, wfiVars, prepVars,
                   acqPending, acquire_time, num_images, image_mode>>
    /\ UNCHANGED <<expVars, wrVars>>

\* disarm: acquire was seen False within the second
DisarmReturn ==
    /\ disarmPc = "waiting"
    /\ acquire = FALSE
    /\ disarmPc' = "ok"
    /\ UNCHANGED <<good_states, frame_timeout, armVars, wfiVars, prepVars, drvVars>>
    /\ UNCHANGED <<expVars, wrVars>>

\* disarm: the second ran out
DisarmTimeout ==
    /\ disarmPc = "waiting"
    /\ disarmPc' = "timeout"
    /\ UNCHANGED <<good_states, frame_timeout, armVars, wfiVars, prepVars, drvVars>>
    /\ UNCHANGED <<expVars, wrVars>>

----------------------------------------------------------------------------
(* ADBaseController.set_exposure_time_and_acquire_period_if_supplied *)

\* get_deadtime, in milliseconds (0.002 s for every exposure)
get_deadtime(exposure) == 2

\* exposure + self.get_deadtime(exposure), in milliseconds
full_frame_time(exposure) == exposure * 1000 + get_deadtime(exposure)

\* the call: a no-op when exposure is None, otherwise the two sets are handed
\* to asyncio.gather
SetExposureCall(exposure) ==
    /\ expPc \notin Running
    /\ expCalls < MaxExposures
    /\ \A w \in DOMAIN expWrites : expWrites[w] # "inflight"
    /\ expCalls' = expCalls + 1
    /\ expArg' = exposure
    /\ IF exposure = NoExposure
         THEN /\ expPc' = "ok"
              /\ expWrites' = [acquire_time |-> "none", acquire_period |-> "none"]
         ELSE /\ expPc' = "writing"
              /\ expWrites' = [acquire_time |-> "inflight", acquire_period |-> "inflight"]
    /\ UNCHANGED <<good_states, frame_timeout, armVars, wfiVars, disarmVars, prepVars,
                   acquire_period, drvVars>>
    /\ UNCHANGED wrVars

\* one of the two gathered sets completes on the device
SetExposureWriteDone(w) ==
    /\ expWrites[w] = "inflight"
    /\ expWrites' = [expWrites EXCEPT ![w] = "done"]
    /\ IF w = "acquire_time"
         THEN acquire_time' = expArg /\ UNCHANGED acquire_period
         ELSE acquire_period' = full_frame_time(expArg) /\ UNCHANGED acquire_time
    /\ UNCHANGED <<good_states, frame_timeout, armVars, wfiVars, disarmVars, prepVars,
                   expPc, expArg, expCalls, acquire, acqPending, num_images, image_mode>>
    /\ UNCHANGED wrVars

\* one of the two gathered sets fails (timeout or transport error)
SetExposureWriteFail(w) ==
    /\ expWrites[w] = "inflight"
    /\ expWrites' = [expWrites EXCEPT ![w] = "failed"]
    /\ UNCHANGED <<good_states, frame_timeout, armVars, wfiVars, disarmVars, prepVars,
                   expPc, expArg, expCalls, acquire_period, drvVars>>
    /\ UNCHANGED wrVars

\* asyncio.gather returns: both sets are done
SetExposureReturn ==
    /\ expPc = "writing"
    /\ \A w \in DOMAIN expWrites : expWrites[w] = "done"
    /\ expPc' = "ok"
    /\ UNCHANGED <<good_states, frame_timeout, armVars, wfiVars, disarmVars, prepVars,
                   expArg, expWrites, expCalls, acquire_period, drvVars>>
    /\ UNCHANGED wrVars

\* asyncio.gather raises the first exception as soon as one set has failed
SetExposureRaise ==
    /\ expPc = "writing"
    /\ \E w \in DOMAIN expWrites : expWrites[w] = "failed"
    /\ expPc' = "error"
    /\ UNCHANGED <<good_states, frame_timeout, armVars, wfiVars, disarmVars, prepVars,
                   expArg, expWrites, expCalls, acquire_period, drvVars>>
    /\ UNCHANGED wrVars

----------------------------------------------------------------------------
(* The driver's control points *)

\* the acquisition ends on its own: the busy record acquire falls back to False
AcquireDone ==
    /\ acquire = TRUE
    /\ acquire' = FALSE
    /\ UNCHANGED <<ctlVars, acqPending, acquire_time, num_images, image_mode>>
    /\ UNCHANGED <<expVars, wrVars>>

\* the completion callback of a put on acquire fires once the record is no
\* longer busy.  A transport that deadlocks on two outstanding callbacks is the
\* behaviour in which this step is never taken for them.
AcquirePutCallback(h) ==
    /\ h \in acqPending
    /\ acquire = FALSE
    /\ acqPending' = acqPending \ {h}
    /\ statuses' = [statuses EXCEPT ![h] = [@ EXCEPT !.put = "done"]]
    /\ UNCHANGED <<good_states, frame_timeout, arm_status, armPc, armH, armCalls,
                   wfiVars, disarmVars, prepVars,
                   acquire, acquire_time, num_images, image_mode>>
    /\ UNCHANGED <<expVars, wrVars>>

\* the put on acquire fails in the transport
AcquirePutFail(h) ==
    /\ h \in acqPending
    /\ acqPending' = acqPending \ {h}
    /\ statuses' = [statuses EXCEPT ![h] = [@ EXCEPT !.put = "failed"]]
    /\ UNCHANGED <<good_states, frame_timeout, arm_status, armPc, armH, armCalls,
                   wfiVars, disarmVars, prepVars,
                   acquire, acquire_time, num_images, image_mode>>
    /\ UNCHANGED <<expVars, wrVars>>

----------------------------------------------------------------------------
(* ADWriter: open / begin_capture / close / get_indices_written *)

\* what a generator that is not running and did not run to its end keeps
NoCall == [last |-> 0, res |-> NoResource, alone |-> TRUE]

\* __init__
InitWriter ==
    /\ last_emitted = 0
    /\ emitted_resource = NoResource
    /\ multiplier = 1
    /\ capture_status = NoStatus
    /\ capStatuses = <<>>
    /\ openPc = "idle" /\ openMultiplier = 1 /\ session = 0
    /\ fileioSets = [p \in FileioPoints |-> "none"]
    /\ closePc = "idle" /\ closeH = NoStatus /\ closeLog = <<>>
    /\ gotIndices = [raw |-> 0, opened |-> 0, indices |-> 0]
    /\ capture = FALSE
    /\ capPending = {}
    /\ colPc = [c \in Collectors |-> "idle"]
    /\ colArg = [c \in Collectors |-> 0]
    /\ colOut = [c \in Collectors |-> <<>>]
    /\ colAt = [c \in Collectors |-> NoCall]
    /\ collects = 0
    /\ nextUid = 0
    /\ sessRes = 0
    /\ lastDatum = <<0, 0>>
    /\ straddled = FALSE
    /\ obsPc = "idle" /\ obsQueue = <<>> /\ obsOut = <<>>
    /\ num_captured = 0

\* OpenCall without the two resets: the resource and the cursor of the earlier
\* session are kept
OpenCall_NoReset(k) ==
    /\ openPc \notin Running
    /\ closePc \notin Running
    /\ session < MaxOpens
    /\ \A p \in FileioPoints : fileioSets[p] # "inflight"
    /\ session' = session + 1
    /\ openMultiplier' = k
    /\ fileioSets' = [p \in FileioPoints |-> "none"]
    /\ openPc' = "shape"
    /\ sessRes' = 0
    /\ lastDatum' = <<0, 0>>
    /\ straddled' = (\E c \in Collectors : colPc[c] \in Running)
    /\ colAt' = [c \in Collectors |->
                   IF colPc[c] \in Running THEN [colAt[c] EXCEPT !.alone = FALSE] ELSE colAt[c]]
    /\ UNCHANGED <<emitted_resource, last_emitted>>
    /\ UNCHANGED <<multiplier, capVars, closeVars, gotIndices, colPc, colArg, colOut,
                   collects, nextUid>>
    /\ UNCHANGED <<ctlVars, drvVars, obsVars>>

\* open(multiplier), up to its first await: the resource and the cursor are
\* reset; the multiplier argument is not stored anywhere.  The caller issues
\* open and close one after the other, never one inside the other.
OpenCall(k) ==
    /\ openPc \notin Running
    /\ closePc \notin Running
    /\ session < MaxOpens
    /\ \A p \in FileioPoints : fileioSets[p] # "inflight"
    /\ session' = session + 1
    /\ openMultiplier' = k
    /\ emitted_resource' = NoResource
    /\ last_emitted' = 0
    /\ fileioSets' = [p \in FileioPoints |-> "none"]
    /\ openPc' = "shape"
    /\ sessRes' = 0
    /\ lastDatum' = <<0, 0>>
    /\ straddled' = (\E c \in Collectors : colPc[c] \in Running)
    /\ colAt' = [c \in Collectors |->
                   IF colPc[c] \in Running THEN [colAt[c] EXCEPT !.alone = FALSE] ELSE colAt[c]]
    /\ UNCHANGED <<multiplier, capVars, closeVars, gotIndices, colPc, colArg, colOut,
                   collects, nextUid>>
    /\ UNCHANGED <<ctlVars, drvVars, obsVars>>

\* open: dataset_describer.shape() answers
OpenShape ==
    /\ openPc = "shape"
    /\ openPc' = "np_datatype"
    /\ UNCHANGED <<sessVars, openMultiplier, fileioSets, multiplier, capVars, closeVars, gotIndices, colVars, histVars>>
    /\ UNCHANGED <<ctlVars, drvVars, obsVars>>

\* open: np_datatype() answers; begin_capture starts and sets enable_callbacks
OpenDatatype ==
    /\ openPc = "np_datatype"
    /\ fileioSets' = [fileioSets EXCEPT !["enable_callbacks"] = "inflight"]
    /\ openPc' = "enable_callbacks"
    /\ UNCHANGED <<sessVars, openMultiplier, multiplier, capVars, closeVars, gotIndices, colVars, histVars>>
    /\ UNCHANGED <<ctlVars, drvVars, obsVars>>

\* BeginEnableCallbacksDone with create_directory handed to asyncio.gather
\* together with the five configuration sets
BeginEnableCallbacksDone_DepthInGather ==
    /\ openPc = "enable_callbacks"
    /\ fileioSets' = [p \in FileioPoints |->
                        IF p = "enable_callbacks" THEN "done"
                        ELSE IF p = "create_directory" \/ p \in ConfigPoints THEN "inflight"
                        ELSE fileioSets[p]]
    /\ openPc' = "configure"
    /\ UNCHANGED <<sessVars, openMultiplier, multiplier, capVars, closeVars, gotIndices, colVars, histVars>>
    /\ UNCHANGED <<ctlVars, drvVars, obsVars>>

\* begin_capture: enable_callbacks is set; create_directory is set next
BeginEnableCallbacksDone ==
    /\ openPc = "enable_callbacks"
    /\ fileioSets' = [fileioSets EXCEPT !["enable_callbacks"] = "done",
                                        !["create_directory"] = "inflight"]
    /\ openPc' = "create_directory"
    /\ UNCHANGED <<sessVars, openMultiplier, multiplier, capVars, closeVars, gotIndices, colVars, histVars>>
    /\ UNCHANGED <<ctlVars, drvVars, obsVars>>

\* begin_capture: create_directory is set; the five configuration sets are
\* handed to asyncio.gather
BeginCreateDirectoryDone ==
    /\ openPc = "create_directory"
    /\ fileioSets' = [p \in FileioPoints |->
                        IF p = "create_directory" THEN "done"
                        ELSE IF p \in ConfigPoints THEN "inflight"
                        ELSE fileioSets[p]]
    /\ openPc' = "configure"
    /\ UNCHANGED <<sessVars, openMultiplier, multiplier, capVars, closeVars, gotIndices, colVars, histVars>>
    /\ UNCHANGED <<ctlVars, drvVars, obsVars>>

\* one of the gathered sets completes (also after gather has raised: the others
\* are not cancelled)
BeginConfigDone(p) ==
    /\ p \in ConfigPoints
    /\ fileioSets[p] = "inflight"
    /\ fileioSets' = [fileioSets EXCEPT ![p] = "done"]
    /\ UNCHANGED <<sessVars, openPc, openMultiplier, multiplier, capVars, closeVars, gotIndices, colVars, histVars>>
    /\ UNCHANGED <<ctlVars, drvVars, obsVars>>

\* one of the gathered sets fails
BeginConfigFail(p) ==
    /\ p \in ConfigPoints
    /\ fileioSets[p] = "inflight"
    /\ fileioSets' = [fileioSets EXCEPT ![p] = "failed"]
    /\ UNCHANGED <<sessVars, openPc, openMultiplier, multiplier, capVars, closeVars, gotIndices, colVars, histVars>>
    /\ UNCHANGED <<ctlVars, drvVars, obsVars>>

\* begin_capture: asyncio.gather returns, file_path_exists is read next
BeginGatherReturn ==
    /\ openPc = "configure"
    /\ \A p \in ConfigPoints : fileioSets[p] = "done"
    /\ openPc' = "file_path_exists"
    /\ UNCHANGED <<sessVars, openMultiplier, fileioSets, multiplier, capVars, closeVars, gotIndices, colVars, histVars>>
    /\ UNCHANGED <<ctlVars, drvVars, obsVars>>

\* begin_capture: asyncio.gather raises as soon as one set has failed
BeginGatherRaise ==
    /\ openPc = "configure"
    /\ \E p \in ConfigPoints : fileioSets[p] = "failed"
    /\ openPc' = "error"
    /\ UNCHANGED <<sessVars, openMultiplier, fileioSets, multiplier, capVars, closeVars, gotIndices, colVars, histVars>>
    /\ UNCHANGED <<ctlVars, drvVars, obsVars>>

\* BeginPathExists with num_capture.set(0) issued before the assertion is made
BeginPathExists_AssertLate(exists) ==
    /\ openPc = "file_path_exists"
    /\ fileioSets' = [fileioSets EXCEPT !["num_capture"] = "inflight"]
    /\ openPc' = IF exists THEN "num_capture" ELSE "PathNotFound"
    /\ UNCHANGED <<sessVars, openMultiplier, multiplier, capVars, closeVars, gotIndices, colVars, histVars>>
    /\ UNCHANGED <<ctlVars, drvVars, obsVars>>

\* begin_capture: file_path_exists answers; the assertion, then num_capture.set(0)
BeginPathExists(exists) ==
    /\ openPc = "file_path_exists"
    /\ IF exists
         THEN /\ fileioSets' = [fileioSets EXCEPT !["num_capture"] = "inflight"]
              /\ openPc' = "num_capture"
         ELSE /\ openPc' = "PathNotFound"
              /\ UNCHANGED fileioSets
    /\ UNCHANGED <<sessVars, openMultiplier, multiplier, capVars, closeVars, gotIndices, colVars, histVars>>
    /\ UNCHANGED <<ctlVars, drvVars, obsVars>>

\* begin_capture: num_capture is set; set_and_wait_for_value(capture, True)
\* puts capture to True with a completion callback and waits to see it True
BeginNumCaptureDone ==
    /\ openPc = "num_capture"
    /\ fileioSets' = [fileioSets EXCEPT !["num_capture"] = "done"]
    /\ capStatuses' = Append(capStatuses, "pending")
    /\ capPending' = capPending \cup {Len(capStatuses) + 1}
    /\ capture' = TRUE
    /\ openPc' = "capture"
    /\ UNCHANGED <<sessVars, openMultiplier, multiplier, capture_status, closeVars, gotIndices, colVars, histVars>>
    /\ UNCHANGED <<ctlVars, drvVars, obsVars>>

\* begin_capture: capture was seen True; the put status is stashed in
\* _capture_status and open returns its describe dictionary
BeginCaptureSeen ==
    /\ openPc = "capture"
    /\ capture = TRUE \/ capStatuses[Len(capStatuses)] # "pending"
    /\ capture_status' = Len(capStatuses)
    /\ openPc' = "ok"
    /\ UNCHANGED <<sessVars, openMultiplier, fileioSets, multiplier, capStatuses, capture,
                   capPending, closeVars, gotIndices, colVars, histVars>>
    /\ UNCHANGED <<ctlVars, drvVars, obsVars>>

\* begin_capture: capture was not seen True in time; _capture_status is not assigned
BeginCaptureTimeout ==
    /\ openPc = "capture"
    /\ openPc' = "error"
    /\ UNCHANGED <<sessVars, openMultiplier, fileioSets, multiplier, capVars, closeVars, gotIndices, colVars, histVars>>
    /\ UNCHANGED <<ctlVars, drvVars, obsVars>>

\* open / begin_capture: the awaited read or set raises
OpenAwaitFail ==
    /\ openPc \in {"shape", "np_datatype", "enable_callbacks", "create_directory",
                   "file_path_exists", "num_capture"}
    /\ fileioSets' = [p \in FileioPoints |->
                        IF p = openPc /\ fileioSets[p] = "inflight" THEN "failed" ELSE fileioSets[p]]
    /\ openPc' = "error"
    /\ UNCHANGED <<sessVars, openMultiplier, multiplier, capVars, closeVars, gotIndices, colVars, histVars>>
    /\ UNCHANGED <<ctlVars, drvVars, obsVars>>

\* get_indices_written: num_captured is read (raw) and divided by _multiplier
GetIndicesWritten(raw) ==
    /\ gotIndices' = [raw |-> raw,
                      opened |-> IF openPc = "ok" THEN openMultiplier ELSE 0,
                      indices |-> raw \div multiplier]
    /\ UNCHANGED <<sessVars, openVars, capVars, closeVars, colVars, histVars>>
    /\ UNCHANGED <<ctlVars, drvVars, obsVars>>

\* observe_indices_written(timeout) is called: observe_value subscribes to
\* num_captured and is notified of its current value first
ObserveCall ==
    /\ obsPc = "idle"
    /\ obsPc' = "waiting"
    /\ obsQueue' = << num_captured >>
    /\ obsOut' = << >>
    /\ UNCHANGED num_captured
    /\ UNCHANGED <<sessVars, openVars, capVars, closeVars, gotIndices, colVars, histVars>>
    /\ UNCHANGED <<ctlVars, drvVars>>

\* the loop body: the next value observed is divided by _multiplier and yielded
ObserveYield ==
    /\ obsPc = "waiting"
    /\ obsQueue # << >>
    /\ obsOut' = Append(obsOut, [raw |-> Head(obsQueue),
                                 opened |-> IF openPc = "ok" THEN openMultiplier ELSE 0,
                                 index |-> Head(obsQueue) \div multiplier])
    /\ obsQueue' = Tail(obsQueue)
    /\ obsPc' = "yielded_index"
    /\ UNCHANGED num_captured
    /\ UNCHANGED <<sessVars, openVars, capVars, closeVars, gotIndices, colVars, histVars>>
    /\ UNCHANGED <<ctlVars, drvVars>>

\* the consumer asks for the next index
ObserveResume ==
    /\ obsPc = "yielded_index"
    /\ obsPc' = "waiting"
    /\ UNCHANGED <<obsQueue, obsOut, num_captured>>
    /\ UNCHANGED <<sessVars, openVars, capVars, closeVars, gotIndices, colVars, histVars>>
    /\ UNCHANGED <<ctlVars, drvVars>>

\* observe_value raises: no update arrived within timeout of the last one
ObserveTimeout ==
    /\ obsPc = "waiting"
    /\ obsQueue = << >>
    /\ obsPc' = "timeout"
    /\ UNCHANGED <<obsQueue, obsOut, num_captured>>
    /\ UNCHANGED <<sessVars, openVars, capVars, closeVars, gotIndices, colVars, histVars>>
    /\ UNCHANGED <<ctlVars, drvVars>>

\* the file plugin writes frames: num_captured grows, and a subscribed
\* observe_value is notified of the new value
NumCapturedUpdate(raw) ==
    /\ raw > num_captured
    /\ num_captured' = raw
    /\ obsQueue' = IF obsPc \in Running THEN Append(obsQueue, raw) ELSE obsQueue
    /\ UNCHANGED <<obsPc, obsOut>>
    /\ UNCHANGED <<sessVars, openVars, capVars, closeVars, gotIndices, colVars, histVars>>
    /\ UNCHANGED <<ctlVars, drvVars>>

\* close, up to wait_for_value: capture is put to False with wait=False, which
\* registers no completion callback
CloseCall ==
    /\ closePc \notin Running
    /\ openPc \notin Running
    /\ capture' = FALSE
    /\ closeLog' = <<"capture.set(False, wait=False)">>
    /\ closeH' = NoStatus
    /\ closePc' = "waiting"
    /\ UNCHANGED <<sessVars, openVars, capture_status, capStatuses, capPending, gotIndices, colVars, histVars>>
    /\ UNCHANGED <<ctlVars, drvVars, obsVars>>

\* CloseSeenFalse returning without awaiting _capture_status
CloseSeenFalse_NoAwait ==
    /\ closePc = "waiting"
    /\ capture = FALSE
    /\ closePc' = "ok"
    /\ closeLog' = Append(closeLog, "wait_for_value(capture, False)")
    /\ UNCHANGED closeH
    /\ UNCHANGED <<sessVars, openVars, capVars, gotIndices, colVars, histVars>>
    /\ UNCHANGED <<ctlVars, drvVars, obsVars>>

\* close: wait_for_value saw capture False; _capture_status, if there is one,
\* is awaited next
CloseSeenFalse ==
    /\ closePc = "waiting"
    /\ capture = FALSE
    /\ IF capture_status = NoStatus
         THEN /\ closePc' = "ok"
              /\ closeLog' = Append(closeLog, "wait_for_value(capture, False)")
              /\ UNCHANGED closeH
         ELSE /\ closePc' = "awaiting"
              /\ closeLog' = closeLog \o <<"wait_for_value(capture, False)", "await _capture_status">>
              /\ closeH' = capture_status
    /\ UNCHANGED <<sessVars, openVars, capVars, gotIndices, colVars, histVars>>
    /\ UNCHANGED <<ctlVars, drvVars, obsVars>>

\* close: capture was not seen False within DEFAULT_TIMEOUT
CloseTimeout ==
    /\ closePc = "waiting"
    /\ closePc' = "timeout"
    /\ UNCHANGED <<sessVars, openVars, capVars, closeH, closeLog, gotIndices, colVars, histVars>>
    /\ UNCHANGED <<ctlVars, drvVars, obsVars>>

\* close: the awaited _capture_status has resolved
CloseReturn ==
    /\ closePc = "awaiting"
    /\ capStatuses[closeH] # "pending"
    /\ closePc' = IF capStatuses[closeH] = "done" THEN "ok" ELSE "error"
    /\ UNCHANGED <<sessVars, openVars, capVars, closeH, closeLog, gotIndices, colVars, histVars>>
    /\ UNCHANGED <<ctlVars, drvVars, obsVars>>

----------------------------------------------------------------------------
(* ADWriter.collect_stream_docs: an async generator, cut at its awaits and yields *)

\* the generator takes the first consumer that holds none
FreeCollector(c) ==
    /\ colPc[c] \notin Running
    /\ c = "c1" \/ colPc["c1"] \in Running

\* a generator that raised or was dropped keeps nothing of its call
Forget(f, c, v) == [f EXCEPT ![c] = v]

StreamResourceDoc(uid) == [kind |-> "stream_resource", uid |-> uid, start |-> 0, stop |-> 0]

\* compose_stream_datum(indices) of the resource with this uid
StreamDatumDoc(uid, indices) ==
    [kind |-> "stream_datum", uid |-> uid, start |-> indices[1], stop |-> indices[2]]

\* DatumStep without the cursor assignment
DatumStep_NoCursor(c, n, out, args, ats) ==
    IF n > last_emitted
      THEN /\ UNCHANGED last_emitted
           /\ IF emitted_resource = NoResource
                THEN /\ colPc' = [colPc EXCEPT ![c] = "error"]
                     /\ colOut' = Forget(colOut, c, <<>>)
                     /\ colArg' = Forget(args, c, 0)
                     /\ colAt' = Forget(ats, c, NoCall)
                     /\ UNCHANGED lastDatum
                ELSE /\ colPc' = [colPc EXCEPT ![c] = "yielded_datum"]
                     /\ colOut' = [colOut EXCEPT ![c] =
                           Append(out, StreamDatumDoc(emitted_resource, <<last_emitted, n>>))]
                     /\ colArg' = args
                     /\ colAt' = ats
                     /\ lastDatum' = <<last_emitted, n>>
      ELSE /\ colPc' = [colPc EXCEPT ![c] = "done"]
           /\ colOut' = [colOut EXCEPT ![c] = out]
           /\ colArg' = args
           /\ colAt' = ats
           /\ UNCHANGED <<last_emitted, lastDatum>>

\* the cursor test of collect_stream_docs and, when it passes, the cursor
\* assignment followed by the yield of the datum composed on the memoized
\* resource; with no resource memoized the composition raises after the cursor
\* has moved.  out, args and ats are the generator's documents so far and the
\* arguments and call records to go on with.
DatumStep(c, n, out, args, ats) ==
    IF n > last_emitted
      THEN /\ last_emitted' = n
           /\ IF emitted_resource = NoResource
                THEN /\ colPc' = [colPc EXCEPT ![c] = "error"]
                     /\ colOut' = Forget(colOut, c, <<>>)
                     /\ colArg' = Forget(args, c, 0)
                     /\ colAt' = Forget(ats, c, NoCall)
                     /\ UNCHANGED lastDatum
                ELSE /\ colPc' = [colPc EXCEPT ![c] = "yielded_datum"]
                     /\ colOut' = [colOut EXCEPT ![c] =
                           Append(out, StreamDatumDoc(emitted_resource, <<last_emitted, n>>))]
                     /\ colArg' = args
                     /\ colAt' = ats
                     /\ lastDatum' = <<last_emitted, n>>
      ELSE /\ colPc' = [colPc EXCEPT ![c] = "done"]
           /\ colOut' = [colOut EXCEPT ![c] = out]
           /\ colArg' = args
           /\ colAt' = ats
           /\ UNCHANGED <<last_emitted, lastDatum>>

\* the record of a call made now by c, and the note on every generator it overlaps
CallRecords(c) ==
    [d \in Collectors |->
        IF d = c
          THEN [last |-> last_emitted, res |-> emitted_resource,
                alone |-> \A e \in Collectors \ {c} : colPc[e] \notin Running]
        ELSE IF colPc[d] \in Running THEN [colAt[d] EXCEPT !.alone = FALSE]
        ELSE colAt[d]]

\* CollectCall without the test for a memoized resource: one is composed on
\* every call with a non-zero argument
CollectCall_NoMemoCheck(c, n) ==
    /\ FreeCollector(c)
    /\ collects < MaxCollects
    /\ collects' = collects + 1
    /\ colPc' = [colPc EXCEPT ![c] = IF n = 0 THEN "done" ELSE "file_path"]
    /\ colOut' = [colOut EXCEPT ![c] = <<>>]
    /\ colArg' = [colArg EXCEPT ![c] = n]
    /\ colAt' = CallRecords(c)
    /\ UNCHANGED <<last_emitted, lastDatum>>
    /\ UNCHANGED <<emitted_resource, session, nextUid, sessRes, straddled>>
    /\ UNCHANGED <<openVars, capVars, closeVars, gotIndices>>
    /\ UNCHANGED <<ctlVars, drvVars, obsVars>>

\* CollectCall without the test of indices_written: a resource is composed
\* when none is memoized, whatever the argument
CollectCall_NoZeroTest(c, n) ==
    /\ FreeCollector(c)
    /\ collects < MaxCollects
    /\ collects' = collects + 1
    /\ IF emitted_resource = NoResource
         THEN /\ colPc' = [colPc EXCEPT ![c] = "file_path"]
              /\ colOut' = [colOut EXCEPT ![c] = <<>>]
              /\ colArg' = [colArg EXCEPT ![c] = n]
              /\ colAt' = CallRecords(c)
              /\ UNCHANGED <<last_emitted, lastDatum>>
         ELSE DatumStep(c, n, <<>>, [colArg EXCEPT ![c] = n], CallRecords(c))
    /\ UNCHANGED <<emitted_resource, session, nextUid, sessRes, straddled>>
    /\ UNCHANGED <<openVars, capVars, closeVars, gotIndices>>
    /\ UNCHANGED <<ctlVars, drvVars, obsVars>>

\* collect_stream_docs(indices_written), from the first request for a document
\* up to the first await or yield
CollectCall(c, n) ==
    /\ FreeCollector(c)
    /\ collects < MaxCollects
    /\ collects' = collects + 1
    /\ IF n = 0
         THEN /\ colPc' = [colPc EXCEPT ![c] = "done"]
              /\ colOut' = [colOut EXCEPT ![c] = <<>>]
              /\ colArg' = [colArg EXCEPT ![c] = n]
              /\ colAt' = CallRecords(c)
              /\ UNCHANGED <<last_emitted, lastDatum>>
       ELSE IF emitted_resource = NoResource
         THEN /\ colPc' = [colPc EXCEPT ![c] = "file_path"]
              /\ colOut' = [colOut EXCEPT ![c] = <<>>]
              /\ colArg' = [colArg EXCEPT ![c] = n]
              /\ colAt' = CallRecords(c)
              /\ UNCHANGED <<last_emitted, lastDatum>>
       ELSE DatumStep(c, n, <<>>, [colArg EXCEPT ![c] = n], CallRecords(c))
    /\ UNCHANGED <<emitted_resource, session, nextUid, sessRes, straddled>>
    /\ UNCHANGED <<openVars, capVars, closeVars, gotIndices>>
    /\ UNCHANGED <<ctlVars, drvVars, obsVars>>

\* fileio.file_path.get_value() answers
CollectFilePath(c) ==
    /\ colPc[c] = "file_path"
    /\ colPc' = [colPc EXCEPT ![c] = "file_name"]
    /\ UNCHANGED <<sessVars, colArg, colOut, colAt, collects, nextUid, histVars>>
    /\ UNCHANGED <<openVars, capVars, closeVars, gotIndices>>
    /\ UNCHANGED <<ctlVars, drvVars, obsVars>>

\* fileio.file_name.get_value() answers
CollectFileName(c) ==
    /\ colPc[c] = "file_name"
    /\ colPc' = [colPc EXCEPT ![c] = "frame_shape"]
    /\ UNCHANGED <<sessVars, colArg, colOut, colAt, collects, nextUid, histVars>>
    /\ UNCHANGED <<openVars, capVars, closeVars, gotIndices>>
    /\ UNCHANGED <<ctlVars, drvVars, obsVars>>

\* dataset_describer.shape() answers: the resource is composed with a fresh
\* uid, memoized, and its stream_resource document is yielded
CollectShape(c) ==
    /\ colPc[c] = "frame_shape"
    /\ nextUid' = nextUid + 1
    /\ emitted_resource' = nextUid + 1
    /\ colOut' = [colOut EXCEPT ![c] = Append(@, StreamResourceDoc(nextUid + 1))]
    /\ colPc' = [colPc EXCEPT ![c] = "yielded_resource"]
    /\ sessRes' = sessRes + 1
    /\ UNCHANGED <<last_emitted, session, colArg, colAt, collects, lastDatum, straddled>>
    /\ UNCHANGED <<openVars, capVars, closeVars, gotIndices>>
    /\ UNCHANGED <<ctlVars, drvVars, obsVars>>

\* one of the three reads raises
CollectReadFail(c) ==
    /\ colPc[c] \in {"file_path", "file_name", "frame_shape"}
    /\ colPc' = [colPc EXCEPT ![c] = "error"]
    /\ colOut' = Forget(colOut, c, <<>>)
    /\ colArg' = Forget(colArg, c, 0)
    /\ colAt' = Forget(colAt, c, NoCall)
    /\ UNCHANGED <<sessVars, collects, nextUid, histVars>>
    /\ UNCHANGED <<openVars, capVars, closeVars, gotIndices>>
    /\ UNCHANGED <<ctlVars, drvVars, obsVars>>

\* the consumer asks for the document after the stream_resource
CollectAfterResource(c) ==
    /\ colPc[c] = "yielded_resource"
    /\ DatumStep(c, colArg[c], colOut[c], colArg, colAt)
    /\ UNCHANGED <<emitted_resource, session, collects, nextUid, sessRes, straddled>>
    /\ UNCHANGED <<openVars, capVars, closeVars, gotIndices>>
    /\ UNCHANGED <<ctlVars, drvVars, obsVars>>

\* the consumer asks for the document after the stream_datum: there is none
CollectAfterDatum(c) ==
    /\ colPc[c] = "yielded_datum"
    /\ colPc' = [colPc EXCEPT ![c] = "done"]
    /\ UNCHANGED <<sessVars, colArg, colOut, colAt, collects, nextUid, histVars>>
    /\ UNCHANGED <<openVars, capVars, closeVars, gotIndices>>
    /\ UNCHANGED <<ctlVars, drvVars, obsVars>>

\* CollectAbandon that takes the cursor back to the start of a datum the
\* consumer dropped the generator at
CollectAbandon_Rewind(c) ==
    /\ colPc[c] \in {"yielded_resource", "yielded_datum"}
    /\ colPc' = [colPc EXCEPT ![c] = "abandoned"]
    /\ colOut' = Forget(colOut, c, <<>>)
    /\ colArg' = Forget(colArg, c, 0)
    /\ colAt' = Forget(colAt, c, NoCall)
    /\ last_emitted' = IF colPc[c] = "yielded_datum"
                         THEN colOut[c][Len(colOut[c])].start
                         ELSE last_emitted
    /\ UNCHANGED <<emitted_resource, session, collects, nextUid, histVars>>
    /\ UNCHANGED <<openVars, capVars, closeVars, gotIndices>>
    /\ UNCHANGED <<ctlVars, drvVars, obsVars>>

\* the consumer stops iterating and drops the generator at a yield
CollectAbandon(c) ==
    /\ colPc[c] \in {"yielded_resource", "yielded_datum"}
    /\ colPc' = [colPc EXCEPT ![c] = "abandoned"]
    /\ colOut' = Forget(colOut, c, <<>>)
    /\ colArg' = Forget(colArg, c, 0)
    /\ colAt' = Forget(colAt, c, NoCall)
    /\ UNCHANGED <<sessVars, collects, nextUid, histVars>>
    /\ UNCHANGED <<openVars, capVars, closeVars, gotIndices>>
    /\ UNCHANGED <<ctlVars, drvVars, obsVars>>

----------------------------------------------------------------------------
(* The file plugin's capture control point *)

\* the plugin stops capturing on its own
CaptureStops ==
    /\ capture = TRUE
    /\ capture' = FALSE
    /\ UNCHANGED <<sessVars, openVars, capture_status, capStatuses, capPending, closeVars, gotIndices, colVars, histVars>>
    /\ UNCHANGED <<ctlVars, drvVars, obsVars>>

\* the completion callback of a put on capture fires once capture is over
CapturePutCallback(h) ==
    /\ h \in capPending
    /\ capture = FALSE
    /\ capPending' = capPending \ {h}
    /\ capStatuses' = [capStatuses EXCEPT ![h] = "done"]
    /\ UNCHANGED <<sessVars, openVars, capture_status, capture, closeVars, gotIndices, colVars, histVars>>
    /\ UNCHANGED <<ctlVars, drvVars, obsVars>>

\* the put on capture fails in the transport
CapturePutFail(h) ==
    /\ h \in capPending
    /\ capPending' = capPending \ {h}
    /\ capStatuses' = [capStatuses EXCEPT ![h] = "failed"]
    /\ UNCHANGED <<sessVars, openVars, capture_status, capture, closeVars, gotIndices, colVars, histVars>>
    /\ UNCHANGED <<ctlVars, drvVars, obsVars>>

----------------------------------------------------------------------------

Init == InitController /\ InitDriver /\ InitWriter

\* the writer beside a controller of the default configuration
InitW == Init /\ good_states = DEFAULT_GOOD_STATES /\ acquire_time = 0

\* open and begin_capture
NextOpen ==
    \/ \E k \in Multipliers : OpenCall(k)
    \/ OpenShape
    \/ OpenDatatype
    \/ BeginEnableCallbacksDone
    \/ BeginCreateDirectoryDone
    \/ \E p \in ConfigPoints : BeginConfigDone(p)
    \/ \E p \in ConfigPoints : BeginConfigFail(p)
    \/ BeginGatherReturn
    \/ BeginGatherRaise
    \/ \E exists \in BOOLEAN : BeginPathExists(exists)
    \/ BeginNumCaptureDone
    \/ BeginCaptureSeen
    \/ BeginCaptureTimeout
    \/ OpenAwaitFail

\* the documents of a session.  The steps of open after its first await touch
\* neither the cursor, the resource nor a generator, so an open is followed
\* here only as far as the reset and the end of the call.
NextCollect ==
    \/ OpenCall(1)
    \/ OpenAwaitFail
    \/ \E c \in Collectors, n \in 0..MaxIndex : CollectCall(c, n)
    \/ \E c \in Collectors : CollectFilePath(c)
    \/ \E c \in Collectors : CollectFileName(c)
    \/ \E c \in Collectors : CollectShape(c)
    \/ \E c \in Collectors : CollectReadFail(c)
    \/ \E c \in Collectors : CollectAfterResource(c)
    \/ \E c \in Collectors : CollectAfterDatum(c)
    \/ \E c \in Collectors : CollectAbandon(c)

SpecCollect == InitW /\ [][NextCollect]_vars

\* open sessions and the index reads made in them
NextIndices ==
    \/ NextOpen
    \/ \E raw \in RawCounts : GetIndicesWritten(raw)

SpecIndices == InitW /\ [][NextIndices]_vars

\* open sessions and the observation of num_captured made in them
NextObserve ==
    \/ NextOpen
    \/ ObserveCall
    \/ ObserveYield
    \/ ObserveResume
    \/ ObserveTimeout
    \/ \E raw \in ObservedCounts : NumCapturedUpdate(raw)

SpecObserve == InitW /\ [][NextObserve]_vars

\* the capture session: open, close and the file plugin's capture point
NextWriter ==
    \/ NextOpen
    \/ CloseCall
    \/ CloseSeenFalse
    \/ CloseTimeout
    \/ CloseReturn
    \/ CaptureStops
    \/ \E h \in capPending : CapturePutCallback(h)
    \/ \E h \in capPending : CapturePutFail(h)

SpecWriter == InitW /\ [][NextWriter]_vars

\* prepare, beside the arm calls that give _arm_status a value
NextPrepare ==
    \/ \E trig \in DetectorTriggers, n \in 0..MaxTriggers : PrepareCall(trig, n)
    \/ PrepareRead
    \/ PrepareReadFail
    \/ \E w \in {"num_images", "image_mode"} : PrepareWriteDone(w)
    \/ \E w \in {"num_images", "image_mode"} : PrepareWriteFail(w)
    \/ PrepareReturn
    \/ PrepareRaise
    \/ ArmCall
    \/ ArmReturn
    \/ ArmTimeout

SpecPrepare == Init /\ [][NextPrepare]_vars

\* the arm / wait_for_idle / disarm lifecycle and the device
NextController ==
    \/ ArmCall
    \/ ArmReturn
    \/ ArmTimeout
    \/ \E h \in DOMAIN statuses, s \in DetectorStates : CompleteAcquisition(h, s)
    \/ \E h \in DOMAIN statuses : CompleteAcquisitionPutFailed(h)
    \/ WaitForIdleCall
    \/ WaitForIdleReturn
    \/ DisarmCall
    \/ DisarmReturn
    \/ DisarmTimeout
    \/ AcquireDone
    \/ \E h \in acqPending : AcquirePutCallback(h)
    \/ \E h \in acqPending : AcquirePutFail(h)

SpecController == Init /\ [][NextController]_vars

\* a controller that is never armed: prepare (its transport failures left
\* out), set_exposure_time_and_acquire_period_if_supplied, disarm and
\* wait_for_idle
NextUnarmed ==
    \/ \E trig \in DetectorTriggers, n \in 0..MaxTriggers : PrepareCall(trig, n)
    \/ PrepareRead
    \/ \E w \in {"num_images", "image_mode"} : PrepareWriteDone(w)
    \/ PrepareReturn
    \/ \E e \in {NoExposure} \cup (0..MaxAcquireTime) : SetExposureCall(e)
    \/ \E w \in {"acquire_time", "acquire_period"} : SetExposureWriteDone(w)
    \/ \E w \in {"acquire_time", "acquire_period"} : SetExposureWriteFail(w)
    \/ SetExposureReturn
    \/ SetExposureRaise
    \/ DisarmCall
    \/ DisarmReturn
    \/ DisarmTimeout
    \/ WaitForIdleCall

SpecUnarmed == InitW /\ [][NextUnarmed]_vars

\* the two stop paths.  The controller and the writer share no state, so a
\* behaviour follows one of them: arm, disarm and the driver's acquire point,
\* or an open that meets no failure, close and the file plugin's capture point.
NextStopController ==
    \/ ArmCall
    \/ ArmReturn
    \/ ArmTimeout
    \/ DisarmCall
    \/ DisarmReturn
    \/ DisarmTimeout
    \/ AcquireDone
    \/ \E h \in acqPending : AcquirePutCallback(h)
    \/ \E h \in acqPending : AcquirePutFail(h)

NextStopWriter ==
    \/ OpenCall(1)
    \/ OpenShape
    \/ OpenDatatype
    \/ BeginEnableCallbacksDone
    \/ BeginCreateDirectoryDone
    \/ \E p \in ConfigPoints : BeginConfigDone(p)
    \/ BeginGatherReturn
    \/ BeginPathExists(TRUE)
    \/ BeginNumCaptureDone
    \/ BeginCaptureSeen
    \/ CloseCall
    \/ CloseSeenFalse
    \/ CloseTimeout
    \/ CloseReturn
    \/ CaptureStops
    \/ \E h \in capPending : CapturePutCallback(h)
    \/ \E h \in capPending : CapturePutFail(h)

NextStop ==
    \/ (session = 0 /\ closePc = "idle" /\ NextStopController)
    \/ (armCalls = 0 /\ disarmPc = "idle" /\ NextStopWriter)

\* the timeout of stop_busy_record is a timer: it runs out if the wait lasts
SpecStop == InitW /\ [][NextStop]_vars /\ WF_vars(DisarmTimeout)

\* the lifecycle of a controller with the default good_states, under the
\* scheduling the event loop, the transport and the timers give: a put on
\* acquire settles once the record is no longer busy, a task or coroutine that
\* can run does run, and the timeout of stop_busy_record runs out
SpecLifecycleFair ==
    /\ InitW
    /\ [][NextController]_vars
    /\ WF_vars(\E h \in acqPending : AcquirePutCallback(h))
    /\ WF_vars(\E h \in DOMAIN statuses, s \in DetectorStates : CompleteAcquisition(h, s))
    /\ WF_vars(\E h \in DOMAIN statuses : CompleteAcquisitionPutFailed(h))
    /\ WF_vars(WaitForIdleReturn)
    /\ WF_vars(DisarmTimeout)

----------------------------------------------------------------------------
(* Properties of ADBaseController *)

\* C1: each control point (acquire, capture) has at most one put-with-callback
\* registration outstanding at any time, whatever the order of arm,
\* wait_for_idle, disarm, open and close.
C1_OnePendingSettleCallback ==
    /\ Cardinality(acqPending) <= 1
    /\ Cardinality(capPending) <= 1

\* C2: the detector state is read only after the put status has resolved; a
\* status whose state read is in good_states finishes without error; and a
\* wait_for_idle that awaited a status returns successfully only after that
\* read, and returns successfully whenever the state read is in good_states.
C2_GoodStateResolves ==
    /\ \A h \in DOMAIN statuses :
          /\ statuses[h].state # "none" => statuses[h].put = "done"
          /\ statuses[h].state \in good_states => statuses[h].task = "ok"
    /\ wfiPc \in {"ok", "error"} /\ wfiH # NoStatus =>
          /\ wfiPc = "ok" => statuses[wfiH].state # "none"
          /\ statuses[wfiH].state \in good_states => wfiPc = "ok"

\* a wait_for_idle has returned without error on a status whose state read,
\* made after the put resolved, was a good state
C2_Witness ==
    /\ wfiPc = "ok"
    /\ wfiH # NoStatus
    /\ statuses[wfiH].put = "done"
    /\ statuses[wfiH].state \in good_states

\* C3: a status whose state read is not in good_states fails, and so does the
\* wait_for_idle awaiting it, with an error that carries the state read and the
\* configured good_states; arm itself has not failed.
C3_BadStateErrorCarriesBoth ==
    \A h \in DOMAIN statuses :
        (statuses[h].state # "none" /\ statuses[h].state \notin good_states) =>
            /\ statuses[h].task = "error"
            /\ statuses[h].error.state = statuses[h].state
            /\ statuses[h].error.valid_end_states = FormatPiece(TRUE, good_states)

\* C9: a prepare whose trigger is not internal ends in UnsupportedTriggerMode
\* in the step that calls it, with none of its sets issued, and that step
\* leaves frame_timeout, _arm_status and every control point of the driver as
\* they were.
C9_RejectsBeforeAnyRemoteOperation ==
    [][ /\ prepTrigger'.trigger # "internal" =>
              /\ prepPc' = "UnsupportedTriggerMode"
              /\ \A w \in DOMAIN prepWrites' : prepWrites'[w] = "none"
        /\ (prepCalls' # prepCalls /\ prepTrigger'.trigger # "internal") =>
              /\ frame_timeout' = frame_timeout
              /\ arm_status' = arm_status
              /\ num_images' = num_images
              /\ image_mode' = image_mode
              /\ acquire_time' = acquire_time
      ]_vars

\* a prepare with an external trigger was rejected on an armed controller whose
\* frame_timeout an earlier prepare had raised
C9_Witness ==
    /\ prepPc = "UnsupportedTriggerMode"
    /\ prepTrigger.trigger = "edge_trigger"
    /\ prepCalls = 2
    /\ frame_timeout > DEFAULT_TIMEOUT
    /\ arm_status # NoStatus

\* C10: _arm_status changes only in the step in which an arm returns, and then
\* to the status that arm made (the newest one); wait_for_idle starts awaiting
\* the status stored at that moment, and its outcome is that status's outcome.
C10_LatestArmStatusOnly ==
    [][ /\ IF armPc = "waiting" /\ armPc' = "ok"
             THEN arm_status' = Len(statuses)
             ELSE arm_status' = arm_status
        /\ (wfiPc' = "awaiting" /\ wfiPc # "awaiting") => wfiH' = arm_status
        /\ (wfiPc = "awaiting" /\ wfiPc' # "awaiting") =>
              /\ wfiH' = wfiH
              /\ wfiPc' = statuses[wfiH].task
      ]_vars

\* two arms have returned, the two statuses ended differently, and a
\* wait_for_idle has returned with the outcome of the second
C10_Witness ==
    /\ armCalls = 2
    /\ armPc = "ok"
    /\ arm_status = 2
    /\ wfiH = 2
    /\ wfiPc \in {"ok", "error"}
    /\ statuses[1].task \notin {"running", wfiPc}

----------------------------------------------------------------------------
(* Properties of ADWriter *)

\* C4: an index read made after open(multiplier=k) has returned gives
\* floor(raw / k) for the raw counter value read.
C4_IndicesUseOpenMultiplier ==
    gotIndices.opened # 0 => gotIndices.indices = gotIndices.raw \div gotIndices.opened

\* the generator of consumer c is called in this step
Called(c) == collects' # collects /\ FreeCollector(c)

\* the generator of consumer c runs to its end in this step
Completes(c) == colPc'[c] = "done" /\ (colPc[c] \in Running \/ Called(c))

\* the generator of consumer c yields a stream_datum in this step
DatumYielded(c) == colPc'[c] = "yielded_datum" /\ colPc[c] # "yielded_datum"

\* C5: a collect_stream_docs(n), n > 0, that ran alone and was consumed to its
\* end leaves a resource memoized and the cursor at the larger of n and its old
\* value, and has yielded: on a fresh session, one stream_resource followed by
\* one stream_datum {0, n}; with a resource memoized and n equal to the cursor,
\* nothing; with a resource memoized and n above the cursor, one stream_datum
\* {cursor, n} on that resource and no stream_resource.
C5_SequentialCollectDocuments ==
    [][ \A c \in Collectors :
          (Completes(c) /\ colAt'[c].alone /\ colArg'[c] > 0) =>
             LET n == colArg'[c]
                 at == colAt'[c]
                 out == colOut'[c]
             IN  /\ emitted_resource' # NoResource
                 /\ last_emitted' = IF n > at.last THEN n ELSE at.last
                 /\ (at.res = NoResource /\ at.last = 0) =>
                       out = << StreamResourceDoc(emitted_resource'),
                                StreamDatumDoc(emitted_resource', <<0, n>>) >>
                 /\ at.res # NoResource =>
                       /\ emitted_resource' = at.res
                       /\ out = IF n > at.last
                                  THEN << StreamDatumDoc(at.res, <<at.last, n>>) >>
                                  ELSE << >>
      ]_vars

\* the third of three calls in an open session has ended: it found a resource
\* memoized and the cursor at 1, and yielded the one datum {1, 2}
C5_Witness ==
    /\ session >= 1
    /\ collects = 3
    /\ \E c \in Collectors :
          /\ colPc[c] = "done"
          /\ colAt[c].alone
          /\ colAt[c].res # NoResource
          /\ colAt[c].last = 1
          /\ colArg[c] = 2
          /\ colOut[c] = << StreamDatumDoc(colAt[c].res, <<1, 2>>) >>

\* C6: while one session lasts, with no generator left over from before its
\* open: the cursor never decreases; every stream_datum yielded has
\* start < stop, starts where the last one yielded stopped (at 0 for the first)
\* and stops at the new cursor; and a generator whose argument is not above the
\* cursor ends without a datum and leaves the cursor as it was.
C6_CursorMonotoneRangesAdjacent ==
    [][ (session' = session /\ ~straddled') =>
          /\ last_emitted' >= last_emitted
          /\ \A c \in Collectors :
                /\ DatumYielded(c) =>
                      LET d == colOut'[c][Len(colOut'[c])]
                      IN  /\ d.kind = "stream_datum"
                          /\ d.start < d.stop
                          /\ d.start = lastDatum[2]
                          /\ d.stop = last_emitted'
                          /\ lastDatum' = <<d.start, d.stop>>
                /\ (Called(c) /\ colArg'[c] <= last_emitted) =>
                      /\ last_emitted' = last_emitted
                      /\ ~DatumYielded(c)
                /\ (colPc[c] = "yielded_resource" /\ colPc'[c] \notin {"yielded_resource", "abandoned"}
                        /\ colArg[c] <= last_emitted) =>
                      /\ last_emitted' = last_emitted
                      /\ colPc'[c] = "done"
      ]_vars

\* the datum {1, 2} has been yielded after {0, 1}, and a later call with the
\* smaller argument 1 has ended with nothing yielded
C6_Witness ==
    /\ ~straddled
    /\ lastDatum = <<1, 2>>
    /\ last_emitted = 2
    /\ \E c \in Collectors :
          /\ colPc[c] = "done"
          /\ colArg[c] = 1
          /\ colAt[c].last = 2
          /\ colOut[c] = << >>

\* C7: in an open session, with no generator left over from before its open,
\* at most one stream_resource document is yielded, however the generators of
\* the session interleave.
C7_OneResourcePerSession ==
    (session >= 1 /\ ~straddled) => sessRes <= 1

\* the three steps of close, in order
CloseSteps == << "capture.set(False, wait=False)", "wait_for_value(capture, False)",
                 "await _capture_status" >>

\* C8: no step of close touches a put registration on capture; close starts by
\* putting capture to False; it goes on only once capture is seen False; and
\* when a _capture_status is stored it returns successfully only from awaiting
\* that status, resolved, having done its three steps in order.
C8_CloseOrderAndAwait ==
    [][ /\ closePc' # closePc => (capPending' = capPending /\ capStatuses' = capStatuses)
        /\ (closePc' # closePc /\ closePc' = "waiting") =>
              /\ capture' = FALSE
              /\ closeLog' = SubSeq(CloseSteps, 1, 1)
        /\ (closePc = "waiting" /\ closePc' \in {"awaiting", "ok"}) =>
              /\ capture = FALSE
              /\ closeLog' = SubSeq(CloseSteps, 1, IF capture_status = NoStatus THEN 2 ELSE 3)
        /\ (closePc' = "ok" /\ closePc' # closePc /\ capture_status # NoStatus) =>
              /\ closePc = "awaiting"
              /\ closeH = capture_status
              /\ capStatuses[capture_status] = "done"
              /\ closeLog' = CloseSteps
      ]_vars

\* a close has returned successfully after awaiting the resolved status that a
\* begin_capture had stored
C8_Witness ==
    /\ closePc = "ok"
    /\ closeH # NoStatus
    /\ closeH = capture_status
    /\ capStatuses[closeH] = "done"
    /\ closeLog = CloseSteps

----------------------------------------------------------------------------
(* Further properties of ADBaseController *)

\* C11: on a controller that was never armed, however prepare,
\* set_exposure_time_and_acquire_period_if_supplied and disarm have run, every
\* wait_for_idle call returns in the step it is made, without error, and
\* changes nothing of the controller or of the device.
C11_WaitForIdleWithoutArm ==
    [][ (armCalls = 0 /\ (wfiPc' # wfiPc \/ wfiH' # wfiH)) =>
           /\ wfiPc' = "ok"
           /\ wfiH' = NoStatus
           /\ UNCHANGED <<good_states, frame_timeout, armVars, disarmVars, prepVars,
                          expVars, drvVars>>
      ]_vars

\* wait_for_idle has returned on a controller never armed, after a prepare
\* raised frame_timeout, an exposure was set and a disarm ran
C11_Witness ==
    /\ wfiPc = "ok"
    /\ armCalls = 0
    /\ arm_status = NoStatus
    /\ prepPc = "ok"
    /\ frame_timeout > DEFAULT_TIMEOUT
    /\ expPc = "ok"
    /\ acquire_period > 0
    /\ disarmPc \in {"ok", "timeout"}

----------------------------------------------------------------------------
(* Further properties of ADWriter *)

\* C12: a collect_stream_docs(0), in any state of the writer, ends in the step
\* it is called in, having yielded nothing and read nothing, and leaves the
\* cursor and the memoized resource as they were; a call with a non-zero
\* argument that finds no resource memoized starts composing one.
C12_CollectZeroIsNoOp ==
    [][ \A c \in Collectors :
          /\ (Called(c) /\ colArg'[c] = 0) =>
                /\ colPc'[c] = "done"
                /\ colOut'[c] = << >>
                /\ UNCHANGED <<last_emitted, emitted_resource, nextUid, sessRes, lastDatum>>
          /\ (Called(c) /\ colArg'[c] > 0 /\ emitted_resource = NoResource) =>
                colPc'[c] = "file_path"
      ]_vars

\* a collect_stream_docs(0) made on a fresh session ended with nothing yielded,
\* and the session's resource was composed afterwards by a non-zero call
C12_Witness ==
    /\ session = 1
    /\ collects = 2
    /\ emitted_resource # NoResource
    /\ sessRes = 1
    /\ \E c \in Collectors :
          /\ colPc[c] = "done"
          /\ colArg[c] = 0
          /\ colOut[c] = << >>
          /\ colAt[c].res = NoResource
          /\ colAt[c].last = 0

\* C13: every index yielded by observe_indices_written in an open session is
\* floor(raw / k) for the raw value it was notified of and the multiplier k the
\* session was opened with, and the raw values are taken in the order the
\* counter took them.
C13_ObservedIndicesInOrder ==
    /\ \A i \in DOMAIN obsOut :
          obsOut[i].opened # 0 => obsOut[i].index = obsOut[i].raw \div obsOut[i].opened
    /\ \A i, j \in DOMAIN obsOut : i < j => obsOut[i].raw < obsOut[j].raw

C15_StopPathsRegisterNothing ==
    /\ [][ /\ disarmPc' # disarmPc => (acqPending' = acqPending /\ statuses' = statuses)
           /\ closePc' # closePc => (capPending' = capPending /\ capStatuses' = capStatuses)
       ]_vars
    /\ (disarmPc = "waiting" ~> disarmPc \in {"ok", "timeout"})

\* a disarm has ended while the registration made by the arm before it is
\* still outstanding
C15_Witness ==
    /\ disarmPc \in {"ok", "timeout"}
    /\ arm_status # NoStatus
    /\ arm_status \in acqPending
    /\ Cardinality(acqPending) = 1

\* C16: in begin_capture, create_directory is set only once enable_callbacks
\* is done; the five configuration sets are issued only once create_directory
\* is done; file_path_exists is read only once the five are done; num_capture
\* is set in the step that follows that read; and the put of capture to True is
\* issued after num_capture is done, when every other set is done.
C16_BeginCaptureOrder ==
    /\ [] /\ fileioSets["create_directory"] # "none" => fileioSets["enable_callbacks"] = "done"
          /\ \A p \in ConfigPoints :
                fileioSets[p] # "none" => fileioSets["create_directory"] = "done"
          /\ openPc \in {"file_path_exists", "PathNotFound"} =>
                \A p \in ConfigPoints : fileioSets[p] = "done"
          /\ fileioSets["num_capture"] # "none" =>
                \A p \in ConfigPoints : fileioSets[p] = "done"
          /\ openPc \in {"capture", "ok"} => \A p \in FileioPoints : fileioSets[p] = "done"
    /\ [][ /\ (fileioSets["num_capture"] = "none" /\ fileioSets'["num_capture"] # "none") =>
                 openPc = "file_path_exists"
           /\ Len(capStatuses') > Len(capStatuses) =>
                 /\ openPc = "num_capture"
                 /\ capture'
                 /\ \A p \in FileioPoints : fileioSets'[p] = "done"
       ]_vars

\* a begin_capture went through all its writes and stored the capture status
C16_Witness ==
    /\ openPc = "ok"
    /\ capture_status # NoStatus
    /\ capture_status = Len(capStatuses)
    /\ \A p \in FileioPoints : fileioSets[p] = "done"

\* C17: open fails with PathNotFound only in the step that reads
\* file_path_exists, and that step writes nothing; as long as the call stays
\* failed, no set of the file plugin is issued or undone, no put of capture to
\* True is issued and _capture_status keeps its value; only a new open call
\* ends that state; and in it the five configuration sets are still applied
\* and num_capture was never set.
C17_PathNotFoundWritesNothing ==
    /\ [][ /\ (openPc' = "PathNotFound" /\ openPc # "PathNotFound") =>
                 /\ openPc = "file_path_exists"
                 /\ UNCHANGED <<fileioSets, capture_status, capStatuses, capPending, capture>>
           /\ (openPc = "PathNotFound" /\ openPc' = "PathNotFound") =>
                 /\ UNCHANGED <<fileioSets, capture_status, session>>
                 /\ Len(capStatuses') = Len(capStatuses)
                 /\ capture' => capture
           /\ (openPc = "PathNotFound" /\ openPc' # "PathNotFound") =>
                 session' = session + 1
       ]_vars
    /\ [](openPc = "PathNotFound" =>
             /\ fileioSets["num_capture"] = "none"
             /\ \A p \in ConfigPoints : fileioSets[p] = "done")

\* the second open of a writer failed with PathNotFound; the status stored by
\* the first one is still the stored one
C17_Witness ==
    /\ openPc = "PathNotFound"
    /\ session = 2
    /\ capture_status = 1
    /\ Len(capStatuses) = 1
    /\ fileioSets["num_capture"] = "none"
    /\ fileioSets["file_path"] = "done"

\* C18: once prepare has returned or raised, neither of its two gathered sets
\* (num_images, image_mode) is still in flight, and it has returned only if
\* both are done.
C18_PrepareEndsAfterBothWrites ==
    /\ prepPc \in {"ok", "error"} => \A w \in DOMAIN prepWrites : prepWrites[w] # "inflight"
    /\ prepPc = "ok" => \A w \in DOMAIN prepWrites : prepWrites[w] = "done"

\* C19: with the default good_states, a step of disarm leaves _arm_status and
\* the status it names as they are; a wait_for_idle that has returned from
\* awaiting a status returned without error exactly if the state read for that
\* status was Idle or Aborted; and a wait_for_idle awaiting the status of the
\* one arm made so far, with acquire put back to False by a disarm, eventually
\* returns or raises, unless arm is called again.
C19_WaitForIdleAfterDisarm ==
    /\ [][ disarmPc' # disarmPc => UNCHANGED <<arm_status, statuses>> ]_vars
    /\ [] ((wfiPc \in {"ok", "error"} /\ wfiH # NoStatus) =>
              (wfiPc = "ok" <=> statuses[wfiH].state \in {"Idle", "Aborted"}))
    /\ ((wfiPc = "awaiting" /\ armCalls = 1 /\ wfiH = arm_status
            /\ disarmPc # "idle" /\ acquire = FALSE)
          ~> (wfiPc \in {"ok", "error"} \/ armCalls > 1))

\* after one arm and a disarm, wait_for_idle has returned without error from
\* the status of that arm, the detector having settled in Aborted
C19_Witness ==
    /\ armCalls = 1
    /\ disarmPc = "ok"
    /\ wfiPc = "ok"
    /\ wfiH # NoStatus
    /\ wfiH = arm_status
    /\ statuses[wfiH].state = "Aborted"

\* C20: while a consumer holds a stream_datum it was handed, the cursor is
\* already at or beyond that datum's stop (no open having come in between);
\* dropping a generator at a yield changes neither the cursor nor the memoized
\* resource; and a call that finds a resource memoized yields no
\* stream_resource: it yields the one datum {cursor, n} on that resource when n
\* is above the cursor, and nothing otherwise.
C20_PartialConsumptionLosesNothing ==
    [][ \A c \in Collectors :
          /\ (colPc'[c] = "yielded_datum" /\ ~straddled' /\ colAt'[c].alone) =>
                last_emitted' = colOut'[c][Len(colOut'[c])].stop
          /\ (colPc'[c] = "yielded_datum" /\ ~straddled') =>
                last_emitted' >= colOut'[c][Len(colOut'[c])].stop
          /\ (colPc[c] \in {"yielded_resource", "yielded_datum"} /\ colPc'[c] = "abandoned") =>
                UNCHANGED <<last_emitted, emitted_resource, sessRes, lastDatum>>
          /\ (Called(c) /\ emitted_resource # NoResource) =>
                /\ UNCHANGED <<emitted_resource, sessRes, nextUid>>
                /\ IF colArg'[c] > last_emitted
                     THEN /\ colPc'[c] = "yielded_datum"
                          /\ colOut'[c] = << StreamDatumDoc(emitted_resource,
                                                            <<last_emitted, colArg'[c]>>) >>
                          /\ last_emitted' = colArg'[c]
                     ELSE /\ colPc'[c] = "done"
                          /\ colOut'[c] = << >>
                          /\ last_emitted' = last_emitted
      ]_vars

\* a generator was dropped after its stream_resource, and the next call was
\* handed the datum {0, n} on the memoized resource and no stream_resource
C20_Witness ==
    /\ session >= 1
    /\ sessRes = 1
    /\ ~straddled
    /\ \E c \in Collectors :
          /\ colPc[c] \in {"yielded_datum", "done"}
          /\ colAt[c].alone
          /\ colAt[c].res # NoResource
          /\ colAt[c].last = 0
          /\ colArg[c] > 0
          /\ colOut[c] = << StreamDatumDoc(colAt[c].res, <<0, colArg[c]>>) >>

====
